---- MODULE Spec2Model ----
(***************************************************************************)
(* The chat hub of lifemart: Hub.Run, Client.readPump, Client.writePump    *)
(* and serveWs of the Envelope-based hub (src/unnamed/part_000).           *)
(*                                                                         *)
(* One goroutine runs Hub.Run; every connection has one serveWs call and,  *)
(* once registered, a readPump and a writePump goroutine.  The hub's three *)
(* event channels are unbuffered, so a send and the hub's receive are one  *)
(* step (a rendezvous) that is enabled only while the hub is in its        *)
(* select; the step includes the whole case of the select.  Each           *)
(* connection's send channel is buffered.                                  *)
(***************************************************************************)
EXTENDS Integers, Sequences, FiniteSets, TLC

(***************************************************************************)
(* Bounds of the model.                                                    *)
(***************************************************************************)
\* capacity of a connection's send channel (make(chan []byte, 256), scaled)
SendCap == 2
\* the count serveWs passes to GetLastMessages (10, scaled)
HistCount == 2
\* frames the transports deliver to the inbound pumps, in total (and
\* Broadcast events a driver of the hub's channels sends)
MaxFrames == 2
\* Unregister events of one connection sent by a driver of the hub's channels
MaxUnreg == 2
\* frames the transports deliver to the inbound pumps of src/hub.go, in total
HubGoMaxFrames == 4

\* the connections, numbered in the order their requests arrive
Clients == {1, 2}
\* what time.Now().Unix() may return
ClockValues == {1}
Rooms == {"lobby", "other"}
Users == {"alice"}
Texts == {"hi"}
TypeTags == {"chat_message", "typing_status", "ping"}

(***************************************************************************)
(* JSON values on the wire.  A frame is either no JSON at all (a syntax    *)
(* error), or an object with the three Envelope fields.  The room may have *)
(* the wrong JSON type (a number), which we write BadRoom.  The payload is *)
(* a Message object, a TypingStatus object, a JSON value that is not an    *)
(* object ("bad"), or absent ("none").                                     *)
(***************************************************************************)
BadRoom == "#number"
NoPayload == [kind |-> "none"]
BadPayload == [kind |-> "bad"]
ChatPayload(u, t, ts) == [kind |-> "chat", username |-> u, text |-> t, timestamp |-> ts]
TypingPayload(u, s) == [kind |-> "typing", user |-> u, status |-> s]
SyntaxError == [kind |-> "syntax"]
Obj(t, r, p) == [kind |-> "obj", type |-> t, room |-> r, payload |-> p]

\* timestamps a client may put in a chat_message
ClientStamps == {0, 1}

\* the frames a client may send: well-formed chat messages to either room
\* with either timestamp, a well-formed typing status, an unknown type, and
\* the ways of being malformed (no JSON, a room of the wrong type, a payload
\* that is no object)
Frames ==
    {Obj("chat_message", r, ChatPayload(u, t, ts)) :
            r \in Rooms, u \in Users, t \in Texts, ts \in ClientStamps}
        \cup {Obj("typing_status", "lobby", TypingPayload(u, TRUE)) : u \in Users}
        \cup {Obj("ping", "lobby", NoPayload),
              SyntaxError,
              Obj("chat_message", BadRoom, ChatPayload("alice", "hi", 0)),
              Obj("chat_message", "lobby", BadPayload)}

(***************************************************************************)
(* encoding/json as the code uses it.                                      *)
(*                                                                         *)
(* json.Unmarshal(b, &env) into an Envelope: a syntax error leaves env at  *)
(* its zero value; a field of the wrong JSON type is reported as an error, *)
(* that field is left zero and the other fields are still filled in.       *)
(***************************************************************************)
UnmarshalEnvelope(b) ==
    IF b.kind = "syntax"
    THEN [err |-> TRUE, Type |-> "", Room |-> "", Payload |-> NoPayload]
    ELSE IF b.room = BadRoom
    THEN [err |-> TRUE, Type |-> b.type, Room |-> "", Payload |-> b.payload]
    ELSE [err |-> FALSE, Type |-> b.type, Room |-> b.room, Payload |-> b.payload]

\* the zero Message
ZeroMessage == [Username |-> "", Text |-> "", Timestamp |-> 0]

\* json.Unmarshal(payload, &msg) into a Message: unknown fields are ignored,
\* so a TypingStatus object decodes without error into the zero Message
UnmarshalMessage(p) ==
    IF p.kind = "chat"
    THEN [err |-> FALSE,
          msg |-> [Username |-> p.username, Text |-> p.text, Timestamp |-> p.timestamp]]
    ELSE IF p.kind = "typing"
    THEN [err |-> FALSE, msg |-> ZeroMessage]
    ELSE [err |-> TRUE, msg |-> ZeroMessage]

\* the zero TypingStatus
ZeroTyping == [User |-> "", Status |-> FALSE]

\* json.Unmarshal(payload, &ts) into a TypingStatus
UnmarshalTyping(p) ==
    IF p.kind = "typing"
    THEN [err |-> FALSE, ts |-> [User |-> p.user, Status |-> p.status]]
    ELSE IF p.kind = "chat"
    THEN [err |-> FALSE, ts |-> ZeroTyping]
    ELSE [err |-> TRUE, ts |-> ZeroTyping]

\* json.Marshal of {Type, Room, Payload Message}
MarshalChat(t, r, msg) == Obj(t, r, ChatPayload(msg.Username, msg.Text, msg.Timestamp))

\* json.Marshal of {Type, Room, Payload TypingStatus}
MarshalTyping(t, r, ts) == Obj(t, r, TypingPayload(ts.User, ts.Status))

(***************************************************************************)
(* State.                                                                  *)
(***************************************************************************)
VARIABLES
    \* Client.room and Client.username ("" before the Client is made)
    room, username,
    \* Client.send: the buffered channel's content, and whether it is closed
    send, closed,
    \* Client.conn: "none", "open" or "closed"
    conn,
    \* where serveWs is for a connection:
    \* "idle", "rejected" (it answered 400), "refused" (the upgrade failed),
    \* "replay", "done"
    spc,
    \* the history messages serveWs still has to enqueue
    pend,
    \* where readPump is: "off", "read", "bcast", "unreg", "closing", "done"
    rpc,
    \* the bytes readPump is sending on hub.broadcast
    rmsg,
    \* where writePump is: "off", "run", "closed" (it returned after the close
    \* notification), "failed" (it returned after a failed write)
    wpc,
    \* Hub.clients and Hub.rooms
    clients, rooms,
    \* where Hub.Run is: "select", "blocked" (in the send
    \* h.unregister <- client of line 117), "panic"
    hubPc,
    \* the client the hub is sending on h.unregister
    hubEvict,
    \* frames read so far, Broadcast events received by the hub so far
    nFrames, nDispatch,
    \* history: the messages serveWs set out to replay to a connection
    hist,
    \* history: how many replayed messages were written to a connection's
    \* transport (.h), and the number of the Broadcast written last (.n)
    wlast,
    \* history: Unregister events the hub received for a connection, and
    \* how often its send channel was closed
    unregCount, closeCount,
    \* history: what SaveMessage returned in the step just taken, "ok" or
    \* "fail", and "none" when that step did not call it
    saved,
    \* history: what the step just taken took from outside: the frame
    \* ReadMessage returned to a readPump, or GetLastMessages' result
    ev

connVars == <<room, username, send, closed, conn, spc, pend, rpc, rmsg, wpc>>
hubVars == <<clients, rooms, hubPc, hubEvict>>
envVars == <<nFrames, nDispatch>>
histVars == <<hist, wlast, unregCount, closeCount>>
vars == <<connVars, hubVars, envVars, histVars, saved, ev>>

NoMsg == [kind |-> "nil"]
NoClient == 0
\* the step just taken took nothing from outside
NoEv == [kind |-> "none"]
\* it was ReadMessage of connection c returning frame f at time t
FrameEv(c, f, t) == [kind |-> "frame", c |-> c, f |-> f, t |-> t]
\* it was GetLastMessages called for connection c, failing (err) or not
HistoryEv(c, err) == [kind |-> "history", c |-> c, err |-> err]
\* keys h.rooms is ever read at: the rooms, and "" (Envelope.Room's zero value)
RoomKeys == Rooms \cup {""}

\* an item of a send channel: the bytes, and (history) the number of the
\* Broadcast that enqueued it, 0 for a replayed history message
Item(b, n) == [raw |-> b, n |-> n]

\* NewHub, and no connection yet
Init ==
    /\ room = [c \in Clients |-> ""]
    /\ username = [c \in Clients |-> ""]
    /\ send = [c \in Clients |-> <<>>]
    /\ closed = [c \in Clients |-> FALSE]
    /\ conn = [c \in Clients |-> "none"]
    /\ spc = [c \in Clients |-> "idle"]
    /\ pend = [c \in Clients |-> <<>>]
    /\ rpc = [c \in Clients |-> "off"]
    /\ rmsg = [c \in Clients |-> NoMsg]
    /\ wpc = [c \in Clients |-> "off"]
    /\ clients = {}
    /\ rooms = [r \in RoomKeys |-> {}]
    /\ hubPc = "select"
    /\ hubEvict = NoClient
    /\ saved = "none"
    /\ ev = NoEv
    /\ nFrames = 0
    /\ nDispatch = 0
    /\ hist = [c \in Clients |-> <<>>]
    /\ wlast = [c \in Clients |-> [h |-> 0, n |-> 0]]
    /\ unregCount = [c \in Clients |-> 0]
    /\ closeCount = [c \in Clients |-> 0]

(***************************************************************************)
(* Hub.Run: the three cases of the select.                                 *)
(***************************************************************************)
\* case client := <-h.register
OnRegister(c) ==
    /\ clients' = clients \cup {c}
    /\ rooms' = [rooms EXCEPT ![room[c]] = @ \cup {c}]
    /\ saved' = "none"
    /\ ev' = NoEv
    /\ UNCHANGED <<hubPc, hubEvict>>

\* (a variant of InRegistry without the check: every Unregister closes)
InRegistryUnchecked(c) == TRUE

\* if _, ok := h.clients[client]; ok
InRegistry(c) == c \in clients

\* (a variant of Deleted that leaves the registry as it is)
DeletedKept(c) == clients

\* delete(h.clients, client)
Deleted(c) == clients \ {c}

\* case client := <-h.unregister; close(client.send) panics on a closed channel
OnUnregister(c) ==
    /\ unregCount' = [unregCount EXCEPT ![c] = @ + 1]
    /\ IF InRegistry(c)
       THEN /\ clients' = Deleted(c)
            /\ IF closed[c]
               THEN /\ hubPc' = "panic"
                    /\ UNCHANGED <<closed, closeCount>>
               ELSE /\ closed' = [closed EXCEPT ![c] = TRUE]
                    /\ closeCount' = [closeCount EXCEPT ![c] = @ + 1]
                    /\ UNCHANGED hubPc
       ELSE UNCHANGED <<clients, closed, closeCount, hubPc>>
    /\ saved' = "none"
    /\ ev' = NoEv
    /\ UNCHANGED <<rooms, hubEvict>>

\* (a variant of FanoutTargets that ranges over the clients of every room)
FanoutEveryRoom(r) == UNION {rooms[k] : k \in RoomKeys}

\* for client := range h.rooms[env.Room]: the clients the loop visits
FanoutTargets(r) == IF r \in RoomKeys THEN rooms[r] ELSE {}

\* (a variant of AfterSave where a failed SaveMessage ends the case)
AfterSaveAbort(sv, r) == IF sv = "fail" THEN {} ELSE FanoutTargets(r)

\* what is fanned out to after SaveMessage returned sv ("none": it was not
\* called): an error is logged and nothing else
AfterSave(sv, r) == FanoutTargets(r)

\* the orders in which a range loop may visit the keys S of a map
Orders(S) ==
    {o \in [1..Cardinality(S) -> S] : \A i, j \in 1..Cardinality(S) : o[i] = o[j] => i = j}

\* (a variant of StillRegistered without the check)
StillRegisteredUnchecked(c) == TRUE

\* if _, ok := h.clients[client]; !ok { continue }
StillRegistered(c) == c \in clients

\* (a variant of Enqueue that puts the item at the front)
EnqueueFront(q, it) == <<it>> \o q

\* the buffered channel send: the item goes to the back of the queue
Enqueue(q, it) == Append(q, it)

\* select { case client.send <- message: ... default: ... }: the default
\* case is taken when the channel's buffer is full
QueueFull(q) == Len(q) >= SendCap

\* The range loop, visiting the clients in order o, with q the send channels'
\* contents.  A send on a closed channel panics.  In the default case the hub
\* sends on its own unbuffered h.unregister, which only the hub's select
\* receives from: the send never completes, and the loop goes no further.
RECURSIVE FanOut(_, _, _)
FanOut(o, q, it) ==
    IF o = <<>>
    THEN [send |-> q, pc |-> "select", evict |-> NoClient]
    ELSE LET c == Head(o)
         IN  IF ~StillRegistered(c)
             THEN FanOut(Tail(o), q, it)
             ELSE IF closed[c]
             THEN [send |-> q, pc |-> "panic", evict |-> NoClient]
             ELSE IF ~QueueFull(q[c])
             THEN FanOut(Tail(o), [q EXCEPT ![c] = Enqueue(@, it)], it)
             ELSE [send |-> q, pc |-> "blocked", evict |-> c]

\* (a variant of CallsSave that saves only what has somebody to go to)
CallsSaveForMembers(m) ==
    LET env == UnmarshalEnvelope(m)
    IN  /\ ~env.err /\ env.Type = "chat_message" /\ ~UnmarshalMessage(env.Payload).err
        /\ \E c \in FanoutTargets(env.Room) : StillRegistered(c)

\* whether the Broadcast of bytes m calls SaveMessage
CallsSave(m) ==
    LET env == UnmarshalEnvelope(m)
    IN  ~env.err /\ env.Type = "chat_message" /\ ~UnmarshalMessage(env.Payload).err

\* case message := <-h.broadcast; sv is what SaveMessage returns if it is
\* called
OnBroadcast(m, sv) ==
    LET env == UnmarshalEnvelope(m)
        save == IF CallsSave(m) THEN sv ELSE "none"
    IN  /\ nDispatch' = nDispatch + 1
        /\ IF env.err
           THEN \* continue
                UNCHANGED <<send, hubPc, hubEvict>>
           ELSE \E o \in Orders(AfterSave(save, env.Room)) :
                    LET res == FanOut(o, send, Item(m, nDispatch + 1))
                    IN  /\ send' = res.send
                        /\ hubPc' = res.pc
                        /\ hubEvict' = res.evict
        /\ saved' = save
        /\ ev' = NoEv
        /\ UNCHANGED <<clients, rooms>>

(***************************************************************************)
(* The Repository (an interface; the code's MockDB is one implementation). *)
(***************************************************************************)
\* a stored message, sent k seconds before the clock's first value
OldMessage(k) == [Username |-> "alice", Text |-> "hi", Timestamp |-> 1 - k]
\* what a room's store may hold, oldest first: nothing, or one message more
\* than serveWs asks for
Stores == {<<>>, [i \in 1..(HistCount + 1) |-> OldMessage(HistCount + 2 - i)]}

\* the last k elements of s
LastOf(s, k) == IF Len(s) <= k THEN s ELSE SubSeq(s, Len(s) - k + 1, Len(s))

\* what GetLastMessages(room, count) may return without error: the count
\* most recent messages of the room's store
LastMessages(count) == {LastOf(s, count) : s \in Stores}

(***************************************************************************)
(* serveWs.                                                                *)
(***************************************************************************)
\* the next request to arrive
Arrives(c) == spc[c] = "idle" /\ \A d \in Clients : d < c => spc[d] # "idle"

\* the values of a query parameter: Get returns "" for a missing one
RoomParams == Rooms \cup {""}
UserParams == Users \cup {""}

\* (a variant of BadRequest that lets every request through)
BadRequestNever(r, u) == FALSE

\* if room == "" || username == ""
BadRequest(r, u) == r = "" \/ u = ""

\* the request is answered with http.StatusBadRequest, and serveWs returns
ServeReject(c) ==
    /\ Arrives(c)
    /\ \E r \in RoomParams, u \in UserParams : BadRequest(r, u)
    /\ spc' = [spc EXCEPT ![c] = "rejected"]
    /\ UNCHANGED <<room, username, send, closed, conn, pend, rpc, rmsg, wpc>>
    /\ UNCHANGED <<hubVars, envVars, histVars>>
    /\ saved' = "none"
    /\ ev' = NoEv

\* upgrader.Upgrade fails: return
ServeUpgradeFail(c) ==
    /\ Arrives(c)
    /\ \E r \in RoomParams, u \in UserParams : ~BadRequest(r, u)
    /\ spc' = [spc EXCEPT ![c] = "refused"]
    /\ UNCHANGED <<room, username, send, closed, conn, pend, rpc, rmsg, wpc>>
    /\ UNCHANGED <<hubVars, envVars, histVars>>
    /\ saved' = "none"
    /\ ev' = NoEv

\* the envelope serveWs makes of a history message
HistoryEnvelope(r, msg) == MarshalChat("chat_message", r, msg)

\* what GetLastMessages(client.room, HistCount) may return: a slice and an
\* error or nil
HistoryResults == [err : BOOLEAN, msgs : LastMessages(HistCount)]

\* (a variant of Replayed that replays the slice whatever the error)
ReplayedAnyway(res) == res.msgs

\* the messages the replay loop ranges over: none when err != nil
Replayed(res) == IF res.err THEN <<>> ELSE res.msgs

\* the request passes the check, the upgrade succeeds, the Client is made and
\* GetLastMessages is called
ServeJoin(c) ==
    /\ Arrives(c)
    /\ \E r \in RoomParams, u \in UserParams, res \in HistoryResults :
        /\ ~BadRequest(r, u)
        /\ room' = [room EXCEPT ![c] = r]
        /\ username' = [username EXCEPT ![c] = u]
        /\ conn' = [conn EXCEPT ![c] = "open"]
        /\ hist' = [hist EXCEPT ![c] = Replayed(res)]
        /\ pend' = [pend EXCEPT ![c] = Replayed(res)]
        /\ ev' = HistoryEv(c, res.err)
    /\ spc' = [spc EXCEPT ![c] = "replay"]
    /\ UNCHANGED <<send, closed, rpc, rmsg, wpc>>
    /\ UNCHANGED <<hubVars, envVars>>
    /\ saved' = "none"
    /\ UNCHANGED <<wlast, unregCount, closeCount>>

\* one iteration of the replay loop: client.send <- jsonMsg, which waits
\* while the channel is full
ServeReplay(c) ==
    /\ pend[c] # <<>>
    /\ Len(send[c]) < SendCap
    /\ send' = [send EXCEPT ![c] = Append(@, Item(HistoryEnvelope(room[c], Head(pend[c])), 0))]
    /\ pend' = [pend EXCEPT ![c] = Tail(@)]
    /\ UNCHANGED <<room, username, closed, conn, spc, rpc, rmsg, wpc>>
    /\ UNCHANGED <<hubVars, envVars, histVars>>
    /\ saved' = "none"
    /\ ev' = NoEv

\* (a variant of AtRegister where serveWs registers before it replays)
AtRegisterEarly(c) == spc[c] = "replay"

\* serveWs is at client.hub.register <- client: the replay loop is over
AtRegister(c) == spc[c] = "replay" /\ pend[c] = <<>>

\* client.hub.register <- client, received by the hub's select; then the two
\* pumps are started
HubRegister(c) ==
    /\ hubPc = "select"
    /\ AtRegister(c)
    /\ OnRegister(c)
    /\ spc' = [spc EXCEPT ![c] = "done"]
    /\ rpc' = [rpc EXCEPT ![c] = "read"]
    /\ wpc' = [wpc EXCEPT ![c] = "run"]
    /\ UNCHANGED <<room, username, send, closed, conn, pend, rmsg>>
    /\ UNCHANGED <<envVars, histVars>>

(***************************************************************************)
(* Client.readPump.                                                        *)
(***************************************************************************)
\* (a variant of Stamp that keeps the timestamp the client supplied)
StampKept(msg, t) == msg

\* msg.Timestamp = time.Now().Unix()
Stamp(msg, t) == [msg EXCEPT !.Timestamp = t]

\* (a variant of Forwarded whose switch treats every other type as a
\* typing_status)
ForwardedDefault(f, t) ==
    LET wrap == UnmarshalEnvelope(f)
    IN  IF wrap.Type = "chat_message"
        THEN MarshalChat(wrap.Type, wrap.Room, Stamp(UnmarshalMessage(wrap.Payload).msg, t))
        ELSE MarshalTyping(wrap.Type, wrap.Room, UnmarshalTyping(wrap.Payload).ts)

\* what readPump sends on hub.broadcast for frame f read at time t: NoMsg
\* when the switch on wrap.Type has no case for it
Forwarded(f, t) ==
    LET wrap == UnmarshalEnvelope(f)
    IN  IF wrap.Type = "chat_message"
        THEN MarshalChat(wrap.Type, wrap.Room, Stamp(UnmarshalMessage(wrap.Payload).msg, t))
        ELSE IF wrap.Type = "typing_status"
        THEN MarshalTyping(wrap.Type, wrap.Room, UnmarshalTyping(wrap.Payload).ts)
        ELSE NoMsg

\* c.conn.ReadMessage() returns a frame
ReadFrame(c) ==
    /\ rpc[c] = "read"
    /\ conn[c] = "open"
    /\ nFrames < MaxFrames
    /\ nFrames' = nFrames + 1
    /\ \E f \in Frames, t \in ClockValues :
        LET out == Forwarded(f, t)
        IN  /\ IF out = NoMsg
               THEN UNCHANGED <<rpc, rmsg>>
               ELSE /\ rpc' = [rpc EXCEPT ![c] = "bcast"]
                    /\ rmsg' = [rmsg EXCEPT ![c] = out]
            /\ ev' = FrameEv(c, f, t)
    /\ UNCHANGED <<room, username, send, closed, conn, spc, pend, wpc>>
    /\ UNCHANGED <<hubVars, nDispatch, histVars>>
    /\ saved' = "none"

\* c.conn.ReadMessage() returns an error (the peer went away, or the
\* connection was closed): return, and the deferred function starts
ReadError(c) ==
    /\ rpc[c] = "read"
    /\ rpc' = [rpc EXCEPT ![c] = "unreg"]
    /\ UNCHANGED <<room, username, send, closed, conn, spc, pend, rmsg, wpc>>
    /\ UNCHANGED <<hubVars, envVars, histVars>>
    /\ saved' = "none"
    /\ ev' = NoEv

\* c.hub.broadcast <- jsonMsg, received by the hub's select
HubBroadcast(c) ==
    /\ hubPc = "select"
    /\ rpc[c] = "bcast"
    /\ \E sv \in {"ok", "fail"} : OnBroadcast(rmsg[c], sv)
    /\ rpc' = [rpc EXCEPT ![c] = "read"]
    /\ rmsg' = [rmsg EXCEPT ![c] = NoMsg]
    /\ UNCHANGED <<room, username, closed, conn, spc, pend, wpc>>
    /\ UNCHANGED <<nFrames, histVars>>

\* the deferred c.hub.unregister <- c, received by the hub's select
HubUnregister(c) ==
    /\ hubPc = "select"
    /\ rpc[c] = "unreg"
    /\ OnUnregister(c)
    /\ rpc' = [rpc EXCEPT ![c] = "closing"]
    /\ UNCHANGED <<room, username, send, conn, spc, pend, rmsg, wpc>>
    /\ UNCHANGED <<envVars, hist, wlast>>

\* the deferred c.conn.Close()
ReadClose(c) ==
    /\ rpc[c] = "closing"
    /\ rpc' = [rpc EXCEPT ![c] = "done"]
    /\ conn' = [conn EXCEPT ![c] = "closed"]
    /\ UNCHANGED <<room, username, send, closed, spc, pend, rmsg, wpc>>
    /\ UNCHANGED <<hubVars, envVars, histVars>>
    /\ saved' = "none"
    /\ ev' = NoEv

(***************************************************************************)
(* Client.writePump.                                                       *)
(***************************************************************************)
\* the record of what reached the transport, after item it was written
Wrote(w, it) == IF it.n = 0 THEN [w EXCEPT !.h = @ + 1] ELSE [w EXCEPT !.n = it.n]

\* message, ok := <-c.send with ok, and WriteMessage succeeds
WriteOk(c) ==
    /\ wpc[c] = "run"
    /\ send[c] # <<>>
    /\ conn[c] = "open"
    /\ wlast' = [wlast EXCEPT ![c] = Wrote(@, Head(send[c]))]
    /\ send' = [send EXCEPT ![c] = Tail(@)]
    /\ UNCHANGED <<room, username, closed, conn, spc, pend, rpc, rmsg, wpc>>
    /\ UNCHANGED <<hubVars, envVars>>
    /\ saved' = "none"
    /\ ev' = NoEv
    /\ UNCHANGED <<hist, unregCount, closeCount>>

\* message, ok := <-c.send with ok, and WriteMessage fails: return, and the
\* deferred c.conn.Close()
WriteFail(c) ==
    /\ wpc[c] = "run"
    /\ send[c] # <<>>
    /\ send' = [send EXCEPT ![c] = Tail(@)]
    /\ wpc' = [wpc EXCEPT ![c] = "failed"]
    /\ conn' = [conn EXCEPT ![c] = "closed"]
    /\ UNCHANGED <<room, username, closed, spc, pend, rpc, rmsg>>
    /\ UNCHANGED <<hubVars, envVars, histVars>>
    /\ saved' = "none"
    /\ ev' = NoEv

\* message, ok := <-c.send with !ok (closed and drained): the close
\* notification is written, whose error is ignored; return, and the deferred
\* c.conn.Close()
WriteClose(c) ==
    /\ wpc[c] = "run"
    /\ send[c] = <<>>
    /\ closed[c]
    /\ wpc' = [wpc EXCEPT ![c] = "closed"]
    /\ conn' = [conn EXCEPT ![c] = "closed"]
    /\ UNCHANGED <<room, username, send, closed, spc, pend, rpc, rmsg>>
    /\ UNCHANGED <<hubVars, envVars, histVars>>
    /\ saved' = "none"
    /\ ev' = NoEv

(***************************************************************************)
(* The program.                                                            *)
(***************************************************************************)
Next ==
    \/ \E c \in Clients : ServeReject(c)
    \/ \E c \in Clients : ServeUpgradeFail(c)
    \/ \E c \in Clients : ServeJoin(c)
    \/ \E c \in Clients : ServeReplay(c)
    \/ \E c \in Clients : HubRegister(c)
    \/ \E c \in Clients : ReadFrame(c)
    \/ \E c \in Clients : ReadError(c)
    \/ \E c \in Clients : HubBroadcast(c)
    \/ \E c \in Clients : HubUnregister(c)
    \/ \E c \in Clients : ReadClose(c)
    \/ \E c \in Clients : WriteOk(c)
    \/ \E c \in Clients : WriteFail(c)
    \/ \E c \in Clients : WriteClose(c)

Spec == Init /\ [][Next]_vars

(***************************************************************************)
(* Hub.Run driven on its three channels from outside, as a test in package *)
(* main drives it: the driver makes Clients and replays history as serveWs *)
(* does, registers them, sends Unregister and Broadcast events of its own  *)
(* choice and receives from the send channels; no pump runs.               *)
(***************************************************************************)
\* the bytes the driver may send on h.broadcast: what a readPump may send,
\* bytes that are no JSON, and an envelope whose payload is no object
HubInputs ==
    ({Forwarded(f, t) : f \in Frames, t \in ClockValues} \ {NoMsg})
        \cup {SyntaxError, Obj("chat_message", "lobby", BadPayload)}

\* h.register <- client
DrvRegister(c) ==
    /\ hubPc = "select"
    /\ AtRegister(c)
    /\ OnRegister(c)
    /\ spc' = [spc EXCEPT ![c] = "done"]
    /\ UNCHANGED <<room, username, send, closed, conn, pend, rpc, rmsg, wpc>>
    /\ UNCHANGED <<envVars, histVars>>

\* h.unregister <- client, for a client that was registered
DrvUnregister(c) ==
    /\ hubPc = "select"
    /\ spc[c] = "done"
    /\ unregCount[c] < MaxUnreg
    /\ OnUnregister(c)
    /\ UNCHANGED <<room, username, send, conn, spc, pend, rpc, rmsg, wpc>>
    /\ UNCHANGED <<envVars, hist, wlast>>

\* h.broadcast <- m
DrvBroadcast ==
    /\ hubPc = "select"
    /\ nFrames < MaxFrames
    /\ nFrames' = nFrames + 1
    /\ \E m \in HubInputs, sv \in {"ok", "fail"} : OnBroadcast(m, sv)
    /\ UNCHANGED <<room, username, closed, conn, spc, pend, rpc, rmsg, wpc>>
    /\ UNCHANGED histVars

\* <-client.send, for a registered client
DrvReceive(c) ==
    /\ spc[c] = "done"
    /\ send[c] # <<>>
    /\ wlast' = [wlast EXCEPT ![c] = Wrote(@, Head(send[c]))]
    /\ send' = [send EXCEPT ![c] = Tail(@)]
    /\ UNCHANGED <<room, username, closed, conn, spc, pend, rpc, rmsg, wpc>>
    /\ UNCHANGED <<hubVars, envVars>>
    /\ saved' = "none"
    /\ ev' = NoEv
    /\ UNCHANGED <<hist, unregCount, closeCount>>

NextHub ==
    \/ \E c \in Clients : ServeJoin(c)
    \/ \E c \in Clients : ServeReplay(c)
    \/ \E c \in Clients : DrvRegister(c)
    \/ \E c \in Clients : DrvUnregister(c)
    \/ DrvBroadcast
    \/ \E c \in Clients : DrvReceive(c)

SpecHub == Init /\ [][NextHub]_vars

\* the scheduler runs every goroutine that can take a step
FairSpec == Spec /\ WF_vars(Next)
FairHub == SpecHub /\ WF_vars(NextHub)

(***************************************************************************)
(* The hub of src/hub.go: the same Hub, Client and channels.  A frame is   *)
(* the text of a message; readPump makes the Message of it, with the       *)
(* Client's room and username.  serveWs replays no history.  Hub.Run's     *)
(* broadcast case has no registry check, and on a full send channel it     *)
(* closes the channel and deletes the client from h.clients itself.        *)
(***************************************************************************)
\* json.Marshal(Message{Room, Username, Text, Timestamp})
HubGoMessage(r, u, txt, ts) ==
    [kind |-> "message", room |-> r, username |-> u, text |-> txt, timestamp |-> ts]

\* room == "" || username == "": 400, and return
HubGoServeReject(c) ==
    /\ Arrives(c)
    /\ \E r \in RoomParams, u \in UserParams : BadRequest(r, u)
    /\ spc' = [spc EXCEPT ![c] = "rejected"]
    /\ UNCHANGED <<room, username, send, closed, conn, pend, rpc, rmsg, wpc>>
    /\ UNCHANGED <<hubVars, envVars, histVars>>
    /\ saved' = "none"
    /\ ev' = NoEv

\* upgrader.Upgrade fails: return
HubGoServeUpgradeFail(c) ==
    /\ Arrives(c)
    /\ \E r \in RoomParams, u \in UserParams : ~BadRequest(r, u)
    /\ spc' = [spc EXCEPT ![c] = "refused"]
    /\ UNCHANGED <<room, username, send, closed, conn, pend, rpc, rmsg, wpc>>
    /\ UNCHANGED <<hubVars, envVars, histVars>>
    /\ saved' = "none"
    /\ ev' = NoEv

\* the request passes the check, the upgrade succeeds and the Client is made
HubGoServeJoin(c) ==
    /\ Arrives(c)
    /\ \E r \in RoomParams, u \in UserParams :
        /\ ~BadRequest(r, u)
        /\ room' = [room EXCEPT ![c] = r]
        /\ username' = [username EXCEPT ![c] = u]
        /\ conn' = [conn EXCEPT ![c] = "open"]
    /\ spc' = [spc EXCEPT ![c] = "replay"]
    /\ UNCHANGED <<send, closed, pend, rpc, rmsg, wpc>>
    /\ UNCHANGED <<hubVars, envVars, histVars>>
    /\ saved' = "none"
    /\ ev' = NoEv

\* client.hub.register <- client, received by the hub's select (the register
\* case is the same); then the two pumps are started
HubGoRegister(c) ==
    /\ hubPc = "select"
    /\ spc[c] = "replay"
    /\ OnRegister(c)
    /\ spc' = [spc EXCEPT ![c] = "done"]
    /\ rpc' = [rpc EXCEPT ![c] = "read"]
    /\ wpc' = [wpc EXCEPT ![c] = "run"]
    /\ UNCHANGED <<room, username, send, closed, conn, pend, rmsg>>
    /\ UNCHANGED <<envVars, histVars>>
    /\ ev' = NoEv

\* c.conn.ReadMessage() returns a frame: the Message is made and marshalled
HubGoReadFrame(c) ==
    /\ rpc[c] = "read"
    /\ conn[c] = "open"
    /\ nFrames < HubGoMaxFrames
    /\ nFrames' = nFrames + 1
    /\ \E txt \in Texts, t \in ClockValues :
        /\ rmsg' = [rmsg EXCEPT ![c] = HubGoMessage(room[c], username[c], txt, t)]
        /\ ev' = FrameEv(c, txt, t)
    /\ rpc' = [rpc EXCEPT ![c] = "bcast"]
    /\ UNCHANGED <<room, username, send, closed, conn, spc, pend, wpc>>
    /\ UNCHANGED <<hubVars, nDispatch, histVars>>
    /\ saved' = "none"

\* c.conn.ReadMessage() returns an error
HubGoReadError(c) ==
    /\ rpc[c] = "read"
    /\ rpc' = [rpc EXCEPT ![c] = "unreg"]
    /\ UNCHANGED <<room, username, send, closed, conn, spc, pend, rmsg, wpc>>
    /\ UNCHANGED <<hubVars, envVars, histVars>>
    /\ saved' = "none"
    /\ ev' = NoEv

\* c.hub.unregister <- c, received by the hub's select (the unregister case
\* is the same); then break: readPump returns, and does not close c.conn
HubGoUnregister(c) ==
    /\ hubPc = "select"
    /\ rpc[c] = "unreg"
    /\ OnUnregister(c)
    /\ rpc' = [rpc EXCEPT ![c] = "done"]
    /\ UNCHANGED <<room, username, send, conn, spc, pend, rmsg, wpc>>
    /\ UNCHANGED <<envVars, hist, wlast>>
    /\ ev' = NoEv

\* The range loop of the broadcast case, visiting the clients in order o; st
\* holds send, closed, clients and closeCount as the loop has them.  There is
\* no registry check.  A send on a closed channel panics, in a select with a
\* default case too.  In the default case the channel is closed and the
\* client deleted from h.clients, and the loop goes on.
RECURSIVE HubGoFanOut(_, _, _)
HubGoFanOut(o, st, it) ==
    IF o = <<>>
    THEN [st EXCEPT !.pc = "select"]
    ELSE LET c == Head(o)
         IN  IF st.closed[c]
             THEN [st EXCEPT !.pc = "panic"]
             ELSE IF ~QueueFull(st.send[c])
             THEN HubGoFanOut(Tail(o), [st EXCEPT !.send[c] = Enqueue(@, it)], it)
             ELSE HubGoFanOut(Tail(o),
                              [st EXCEPT !.closed[c] = TRUE,
                                         !.closeCount[c] = @ + 1,
                                         !.clients = @ \ {c}],
                              it)

\* case message := <-h.broadcast: the Message is decoded, SaveMessage is
\* called (sv is what it returns, which the code ignores), and the message
\* is fanned out to h.rooms[msg.Room]
HubGoOnBroadcast(m, sv) ==
    /\ nDispatch' = nDispatch + 1
    /\ saved' = sv
    /\ \E o \in Orders(FanoutTargets(m.room)) :
        LET res == HubGoFanOut(o, [send |-> send, closed |-> closed, clients |-> clients,
                                   closeCount |-> closeCount, pc |-> "select"],
                               Item(m, nDispatch + 1))
        IN  /\ send' = res.send
            /\ closed' = res.closed
            /\ clients' = res.clients
            /\ closeCount' = res.closeCount
            /\ hubPc' = res.pc
    /\ UNCHANGED <<rooms, hubEvict>>

\* c.hub.broadcast <- jsonMsg, received by the hub's select
HubGoBroadcast(c) ==
    /\ hubPc = "select"
    /\ rpc[c] = "bcast"
    /\ \E sv \in {"ok", "fail"} : HubGoOnBroadcast(rmsg[c], sv)
    /\ rpc' = [rpc EXCEPT ![c] = "read"]
    /\ rmsg' = [rmsg EXCEPT ![c] = NoMsg]
    /\ UNCHANGED <<room, username, conn, spc, pend, wpc>>
    /\ UNCHANGED <<nFrames, hist, wlast, unregCount>>
    /\ ev' = NoEv

\* message, ok := <-c.send with ok, and WriteMessage, whose error is
\* ignored: the message reaches the transport (ok) or not, and the loop goes on
HubGoWrite(c) ==
    /\ wpc[c] = "run"
    /\ send[c] # <<>>
    /\ \E ok \in BOOLEAN :
        wlast' = [wlast EXCEPT ![c] = IF ok THEN Wrote(@, Head(send[c])) ELSE @]
    /\ send' = [send EXCEPT ![c] = Tail(@)]
    /\ UNCHANGED <<room, username, closed, conn, spc, pend, rpc, rmsg, wpc>>
    /\ UNCHANGED <<hubVars, envVars>>
    /\ UNCHANGED <<hist, unregCount, closeCount>>
    /\ saved' = "none"
    /\ ev' = NoEv

\* message, ok := <-c.send with !ok: the close notification, return, and the
\* deferred c.conn.Close()
HubGoWriteClose(c) ==
    /\ wpc[c] = "run"
    /\ send[c] = <<>>
    /\ closed[c]
    /\ wpc' = [wpc EXCEPT ![c] = "closed"]
    /\ conn' = [conn EXCEPT ![c] = "closed"]
    /\ UNCHANGED <<room, username, send, closed, spc, pend, rpc, rmsg>>
    /\ UNCHANGED <<hubVars, envVars, histVars>>
    /\ saved' = "none"
    /\ ev' = NoEv

NextHubGo ==
    \/ \E c \in Clients : HubGoServeReject(c)
    \/ \E c \in Clients : HubGoServeUpgradeFail(c)
    \/ \E c \in Clients : HubGoServeJoin(c)
    \/ \E c \in Clients : HubGoRegister(c)
    \/ \E c \in Clients : HubGoReadFrame(c)
    \/ \E c \in Clients : HubGoReadError(c)
    \/ \E c \in Clients : HubGoBroadcast(c)
    \/ \E c \in Clients : HubGoUnregister(c)
    \/ \E c \in Clients : HubGoWrite(c)
    \/ \E c \in Clients : HubGoWriteClose(c)

SpecHubGo == Init /\ [][NextHubGo]_vars

(***************************************************************************)
(* What the hub does with a connection whose send channel is full.         *)
(***************************************************************************)
\* the connection is out of the registry and of its room's set, and its
\* send channel is closed
Evicted(c) == c \notin clients /\ c \notin rooms[room[c]] /\ closed[c]

\* C1: whenever the hub, fanning out a Broadcast, finds the send channel of a
\* registered connection c full, c is eventually out of the registry and of
\* its room's set in the room index, with its send channel closed.
C1_FullQueueEvicted ==
    \A c \in Clients : (hubPc = "blocked" /\ hubEvict = c) ~> Evicted(c)

\* C2: the hub never stalls: whatever event it is processing, it eventually
\* finishes it and is back in its select, receiving from its channels.
C2_HubReturnsToSelect == []<>(hubPc = "select")

\* C3: whenever the hub is between events, a connection is in the registry
\* (clients) if and only if it is in rooms[connection.room].
C3_RegistryIffRoomIndex ==
    hubPc = "select" => \A c \in Clients : c \in clients <=> c \in rooms[room[c]]

\* C4: Unregister is idempotent.  However many Unregister events of a
\* connection the hub receives, its send channel is closed exactly once and
\* the hub never closes a closed channel; and every Unregister after the
\* first leaves the registry, the room index, the send channels and the hub
\* as they were.
C4_UnregisterIdempotent ==
    /\ [](/\ hubPc # "panic"
          /\ \A c \in Clients :
                /\ closeCount[c] <= 1
                /\ unregCount[c] >= 1 => closeCount[c] = 1 /\ closed[c])
    /\ [][\A c \in Clients :
            unregCount[c] >= 1 /\ unregCount'[c] > unregCount[c]
                => /\ clients' = clients
                   /\ rooms' = rooms
                   /\ send' = send
                   /\ closed' = closed
                   /\ closeCount' = closeCount
                   /\ hubPc' = hubPc]_vars

\* C4's case: the hub has received a second Unregister of a connection
C4_Witness == \E c \in Clients : unregCount[c] >= 2 /\ closeCount[c] = 1 /\ hubPc = "select"

(***************************************************************************)
(* Join-time replay and delivery order.                                    *)
(***************************************************************************)
\* the replayed items at the front of queue q
RECURSIVE ReplayedPrefix(_)
ReplayedPrefix(q) ==
    IF q = <<>> \/ Head(q).n # 0 THEN <<>> ELSE <<Head(q).raw>> \o ReplayedPrefix(Tail(q))

\* queue q holds its replayed items first, and the Broadcast items after them
\* in the order of their numbers
Ordered(q) ==
    \A i, j \in 1..Len(q) : i < j => (q[j].n # 0 /\ q[i].n < q[j].n) \/ (q[i].n = 0 /\ q[j].n = 0)

\* the envelopes of history messages l, for connection c
Envelopes(c, l) == [i \in 1..Len(l) |-> HistoryEnvelope(room[c], l[i])]

\* C5: join ordering.  For every connection the replayed envelopes are in its
\* send channel before every envelope a Broadcast delivers, in the order
\* GetLastMessages returned them, and they are written first: a Broadcast is
\* enqueued only once the whole replay is, and written only once every
\* replayed envelope has left the queue; what is still to be replayed and
\* written is always the tail of what GetLastMessages returned.
C5_JoinOrdering ==
    \A c \in Clients :
        LET q == send[c]
            h == ReplayedPrefix(q)
            all == Envelopes(c, hist[c])
            left == h \o Envelopes(c, pend[c])
        IN  /\ \A i, j \in 1..Len(q) : i < j /\ q[j].n = 0 => q[i].n = 0
            /\ (\E i \in 1..Len(q) : q[i].n # 0) => pend[c] = <<>>
            /\ wlast[c].n # 0 => pend[c] = <<>> /\ h = <<>>
            /\ wlast[c].h + Len(left) <= Len(all)
            /\ left = SubSeq(all, Len(all) - Len(left) + 1, Len(all))
            /\ wpc[c] # "failed" => wlast[c].h + Len(left) = Len(all)

\* C5's case: a connection joined while the history was two messages, both
\* were written to its transport, and then a Broadcast was
C5_Witness ==
    \E c \in Clients : Len(hist[c]) = 2 /\ wlast[c].h = 2 /\ wlast[c].n > 0

(***************************************************************************)
(* The fan-out of one Broadcast.  In the program a Broadcast is the step   *)
(* in which a readPump hands its bytes to the hub.                         *)
(***************************************************************************)
\* this step is the hub's Broadcast case for the bytes connection s sends
Dispatch(s) == rpc[s] = "bcast" /\ rpc'[s] = "read"

\* the room the bytes connection s is sending name
SentRoom(s) == UnmarshalEnvelope(rmsg[s]).Room

\* the connections registered in room r
RegisteredIn(r) == {c \in Clients : c \in clients /\ room[c] = r}

\* C6: fan-out count.  When the hub processes a Broadcast for room R while N
\* connections are registered in R and none of their send channels is full,
\* exactly one item is enqueued for each of the N, all with the bytes of the
\* Broadcast, nothing is enqueued for any other connection (one that was
\* unregistered before included), and the hub is back in its select.
C6_FanOutCount ==
    [][\A s \in Clients :
        Dispatch(s) /\ (\A c \in RegisteredIn(SentRoom(s)) : Len(send[c]) < SendCap)
            => /\ \A c \in Clients :
                    send'[c] = IF c \in RegisteredIn(SentRoom(s))
                               THEN Append(send[c], Item(rmsg[s], nDispatch'))
                               ELSE send[c]
               /\ hubPc' = "select"]_vars

\* C6's case: the last Broadcast was enqueued for two registered connections
\* of a room, with the same bytes
C6_Witness ==
    /\ nDispatch > 0
    /\ hubPc = "select"
    /\ clients = Clients
    /\ room[1] = room[2]
    /\ \E i \in 1..Len(send[1]), j \in 1..Len(send[2]) :
        /\ send[1][i].n = nDispatch
        /\ send[2][j] = send[1][i]

\* C7: sender room scoping.  Whatever a frame holds, the Broadcast made of it
\* is enqueued for no connection of another room than its sender's, and a
\* connection's room never changes.
C7_SenderRoomScoping ==
    [][/\ \A s, c \in Clients : Dispatch(s) /\ room[c] # room[s] => send'[c] = send[c]
       /\ \A c \in Clients : room[c] # "" => room'[c] = room[c]]_vars

\* C8: cross-room frame.  Processing a Broadcast whose envelope names room R
\* leaves the send channel of every connection registered in another room
\* as it is, and the registry membership of every connection outside R.
C8_CrossRoomFrame ==
    [][\A s, c \in Clients :
        Dispatch(s) /\ room[c] # SentRoom(s)
            => /\ c \in clients => send'[c] = send[c]
               /\ c \in clients' <=> c \in clients]_vars

\* C8's case: a Broadcast for a room was enqueued for a connection of that
\* room while a connection registered in the other room got nothing
C8_Witness ==
    \E c, d \in Clients :
        /\ c \in clients /\ d \in clients
        /\ room[c] # room[d]
        /\ send[c] = <<>> /\ wlast[c].n = 0 /\ wpc[c] = "run"
        /\ \E i \in 1..Len(send[d]) :
            send[d][i].n = nDispatch /\ nDispatch > 0 /\ send[d][i].raw.room = room[d]

\* C9: per-room delivery order.  The Broadcasts in a connection's send
\* channel are in the order the hub processed them, and all of them were
\* processed after the Broadcast written to its transport last.
C9_DeliveryOrder ==
    \A c \in Clients :
        /\ Ordered(send[c])
        /\ \A i \in 1..Len(send[c]) : send[c][i].n # 0 => send[c][i].n > wlast[c].n

\* C9's case: the first Broadcast was written to a connection's transport and
\* the second, for the same room, is in its send channel
C9_Witness ==
    \E c \in Clients :
        /\ wlast[c].n = 1
        /\ send[c] # <<>>
        /\ Head(send[c]).n = 2
        /\ Head(send[c]).raw.room = room[c]

\* C10: persistence is decoupled from delivery.  When SaveMessage fails for a
\* Broadcast, the registry and the room index stay as they are, and if no
\* send channel of the room's registered connections is full each of them
\* gets the item and the hub is back in its select, as when SaveMessage
\* succeeds.
C10_SaveFailureDelivers ==
    [][\A s \in Clients :
        Dispatch(s) /\ saved' = "fail"
            => /\ clients' = clients
               /\ rooms' = rooms
               /\ (\A c \in RegisteredIn(SentRoom(s)) : Len(send[c]) < SendCap)
                    => /\ \A c \in RegisteredIn(SentRoom(s)) :
                            send'[c] = Append(send[c], Item(rmsg[s], nDispatch'))
                       /\ hubPc' = "select"]_vars

\* C10's case: SaveMessage failed for the last Broadcast, which is in the
\* send channel of a registered connection of its room
C10_Witness ==
    /\ saved = "fail"
    /\ hubPc = "select"
    /\ nDispatch > 0
    /\ \E c \in clients : \E i \in 1..Len(send[c]) :
        send[c][i].n = nDispatch /\ send[c][i].raw.room = room[c]

(***************************************************************************)
(* What readPump does with one frame.                                      *)
(***************************************************************************)
\* the step just taken was connection c's ReadMessage returning a frame
Read(c) == ev.kind = "frame" /\ ev.c = c

\* the type tag of frame f, as readPump's switch sees it, has no case
UnknownType(f) == UnmarshalEnvelope(f).Type \notin {"chat_message", "typing_status"}

\* frame f is a chat_message for a room, with a Message as payload
ValidChat(f) ==
    f.kind = "obj" /\ f.type = "chat_message" /\ f.room \in Rooms /\ f.payload.kind = "chat"

\* C11: unknown envelope type.  A frame whose type tag is neither
\* chat_message nor typing_status makes no Broadcast and no Unregister and
\* changes neither the registry nor the room index nor a send channel; its
\* connection stays as it is, with readPump reading on; and when the next
\* frame that connection reads is a valid chat_message, readPump hands it to
\* the hub.
C11_UnknownTypeDropped ==
    [][\A c \in Clients :
        /\ Read(c)' /\ UnknownType(ev'.f)
            => /\ rpc' = rpc /\ rpc'[c] = "read"
               /\ rmsg' = rmsg
               /\ clients' = clients /\ rooms' = rooms /\ hubPc' = hubPc
               /\ nDispatch' = nDispatch
               /\ unregCount' = unregCount
               /\ send' = send /\ closed' = closed
               /\ conn' = conn /\ wpc' = wpc
        /\ Read(c) /\ UnknownType(ev.f) /\ Read(c)' /\ ValidChat(ev'.f)
            => /\ rpc'[c] = "bcast"
               /\ rmsg'[c] = Obj("chat_message", ev'.f.room,
                                 ChatPayload(ev'.f.payload.username, ev'.f.payload.text, ev'.t))]_vars

\* C11's case: a registered connection read a frame of unknown type, the only
\* frame read so far, and after it a valid chat_message, which it is handing
\* to the hub
C11_Witness ==
    \E c \in Clients :
        /\ Read(c) /\ ValidChat(ev.f)
        /\ nFrames = 2 /\ nDispatch = 0
        /\ \A d \in Clients \ {c} : rpc[d] = "off"
        /\ c \in clients /\ rpc[c] = "bcast" /\ conn[c] = "open"

\* the Message the hub decodes from the bytes m of a Broadcast
HubMessage(m) == UnmarshalMessage(UnmarshalEnvelope(m).Payload).msg

\* C13: server-assigned timestamp.  For every valid chat_message frame that
\* readPump reads, whatever timestamp the client wrote in it, the envelope
\* handed to the hub has the frame's type, room, username and text and the
\* time readPump read the clock at as timestamp; and the hub, processing it,
\* decodes a Message with a timestamp of the server's clock and enqueues
\* these very bytes.
C13_ServerTimestamp ==
    [][/\ \A c \in Clients :
            Read(c)' /\ ValidChat(ev'.f)
                => /\ rpc'[c] = "bcast"
                   /\ rmsg'[c].payload.timestamp = ev'.t
                   /\ rmsg'[c] = [ev'.f EXCEPT !.payload.timestamp = ev'.t]
       /\ \A s \in Clients :
            Dispatch(s) /\ UnmarshalEnvelope(rmsg[s]).Type = "chat_message"
                => /\ HubMessage(rmsg[s]).Timestamp \in ClockValues
                   /\ \A c \in Clients : \A i \in 1..Len(send'[c]) :
                        send'[c][i].n = nDispatch' => send'[c][i].raw = rmsg[s]]_vars

\* C13's case: a connection read a valid chat_message whose timestamp is not
\* the server's time, and is handing it to the hub with the server's time
C13_Witness ==
    \E c \in Clients :
        /\ Read(c) /\ ValidChat(ev.f)
        /\ ev.f.payload.timestamp # ev.t
        /\ rpc[c] = "bcast"
        /\ rmsg[c].payload.timestamp = ev.t

\* json.Unmarshal fails on frame f in readPump: on the envelope, or on the
\* payload in the case of its type
DecodeFails(f) ==
    LET wrap == UnmarshalEnvelope(f)
    IN  \/ wrap.err
        \/ wrap.Type = "chat_message" /\ UnmarshalMessage(wrap.Payload).err
        \/ wrap.Type = "typing_status" /\ UnmarshalTyping(wrap.Payload).err

\* C15: decode failures drop the frame.  When the envelope of a frame cannot
\* be decoded, or its type is chat_message or typing_status and its payload
\* cannot be decoded, readPump hands nothing to the hub for it and reads on,
\* with the connection as it was.
C15_DecodeFailureDrops ==
    [][\A c \in Clients :
        Read(c)' /\ DecodeFails(ev'.f)
            => /\ rpc'[c] = "read"
               /\ rmsg' = rmsg
               /\ conn' = conn /\ clients' = clients]_vars

(***************************************************************************)
(* Requests that serveWs turns away.                                       *)
(***************************************************************************)
\* C14: rejected join.  The step in which serveWs answers a request with 400
\* makes no Client, opens no transport, calls no GetLastMessages, sends no
\* Register and leaves the registry, the room index and every send channel
\* as they are, and the request never gets any of these later; and whenever a
\* Client is made, its room and its username are not empty.
C14_RejectedJoin ==
    [][\A c \in Clients :
        /\ spc[c] = "idle" /\ spc'[c] = "rejected"
            => /\ room' = room /\ username' = username /\ conn' = conn
               /\ hist' = hist /\ pend' = pend /\ ev' = NoEv
               /\ clients' = clients /\ rooms' = rooms /\ hubPc' = hubPc
               /\ send' = send /\ closed' = closed
               /\ rpc' = rpc /\ wpc' = wpc
        /\ spc[c] = "rejected"
            => /\ spc'[c] = "rejected" /\ conn'[c] = "none" /\ room'[c] = ""
               /\ c \notin clients' /\ \A r \in RoomKeys : c \notin rooms'[r]
        /\ conn[c] = "none" /\ conn'[c] # "none"
            => room'[c] # "" /\ username'[c] # ""]_vars

\* C14's case: a request was rejected while another connection is registered
C14_Witness ==
    \E c, d \in Clients :
        /\ spc[c] = "rejected" /\ conn[c] = "none" /\ room[c] = ""
        /\ clients = {d} /\ rooms[room[d]] = {d}

(***************************************************************************)
(* Teardown of a connection.                                               *)
(***************************************************************************)
\* connection c is out of the registry, its send channel is closed, its
\* transport is closed and both pumps have returned, writePump after the
\* close notification
TornDown(c) ==
    /\ c \notin clients /\ closed[c]
    /\ rpc[c] = "done" /\ conn[c] = "closed"
    /\ wpc[c] = "closed"

\* C12: read-error teardown.  Whenever ReadMessage of a registered connection
\* has failed, so that readPump is sending its Unregister, the connection is
\* eventually out of the registry with its send channel closed, its
\* transport closed, readPump over and writePump over after the close
\* notification, whatever the other connections do.
C12_ReadErrorTeardown ==
    \A c \in Clients : (rpc[c] = "unreg") ~> TornDown(c)

\* C16: write-failure teardown.  Whenever writePump of a connection has
\* returned after a failed write while the hub is receiving from its
\* channels, the connection is eventually out of the registry with its send
\* channel closed and the hub is receiving from its channels again: the
\* Broadcasts for the connection's room in the meantime do not stall it.
C16_WriteFailureTeardown ==
    \A c \in Clients :
        (wpc[c] = "failed" /\ hubPc = "select")
            ~> (c \notin clients /\ closed[c] /\ hubPc = "select")

(***************************************************************************)
(* The effect of the join-time replay.                                     *)
(***************************************************************************)
\* the step just taken was serveWs calling GetLastMessages for connection c
Joined(c) == ev.kind = "history" /\ ev.c = c

\* C19: history replay effect.  serveWs sets out to replay at most HistCount
\* messages, and none when GetLastMessages failed, in which case it is at
\* its Register at once with an empty send channel.  Each replay step
\* appends one chat_message envelope, for the connection's room and with the
\* next history message as payload, to the connection's own send channel
\* and changes no other send channel, calls no SaveMessage and is no
\* Broadcast.  Until the Register the connection is in neither the registry
\* nor the room index, and neither changes by the join or the replay.
C19_ReplayEffect ==
    [][\A c \in Clients :
        /\ Joined(c)'
            => /\ Len(hist'[c]) <= HistCount
               /\ pend'[c] = hist'[c]
               /\ ev'.err => pend'[c] = <<>> /\ send'[c] = <<>> /\ AtRegister(c)'
               /\ send' = send
               /\ clients' = clients /\ rooms' = rooms /\ hubPc' = hubPc
               /\ saved' = "none" /\ nDispatch' = nDispatch
        /\ spc[c] = "replay" /\ pend'[c] # pend[c]
            => /\ pend[c] # <<>> /\ pend'[c] = Tail(pend[c])
               /\ send'[c] = Append(send[c],
                                    Item(Obj("chat_message", room[c],
                                             ChatPayload(Head(pend[c]).Username,
                                                         Head(pend[c]).Text,
                                                         Head(pend[c]).Timestamp)), 0))
               /\ \A d \in Clients \ {c} : send'[d] = send[d]
               /\ clients' = clients /\ rooms' = rooms /\ hubPc' = hubPc
               /\ saved' = "none" /\ nDispatch' = nDispatch
        /\ spc'[c] = "replay"
            => c \notin clients' /\ \A r \in RoomKeys : c \notin rooms'[r]
        /\ spc[c] = "replay" /\ spc'[c] = "done"
            => pend[c] = <<>> /\ c \in clients' /\ c \in rooms'[room[c]]]_vars

\* C19's case: one connection has its HistCount history messages as
\* envelopes in its send channel and is not registered yet, and
\* GetLastMessages just failed for the other, which is at its Register with
\* an empty send channel
C19_Witness ==
    \E c, d \in Clients :
        /\ spc[c] = "replay" /\ pend[c] = <<>>
        /\ Len(hist[c]) = HistCount /\ Len(send[c]) = HistCount
        /\ \A i \in 1..Len(send[c]) : send[c][i] = Item(HistoryEnvelope(room[c], hist[c][i]), 0)
        /\ c \notin clients
        /\ d # c
        /\ Joined(d) /\ ev.err
        /\ AtRegister(d) /\ send[d] = <<>> /\ d \notin clients

(***************************************************************************)
(* The hub and closed send channels.                                       *)
(***************************************************************************)
\* C17: no enqueue on a closed queue.  Whatever Register, Unregister and
\* Broadcast events the hub receives, it never sends on (nor closes) a closed
\* send channel: no step ends in a panic, and a Broadcast leaves the send
\* channel of every connection that was unregistered as it is, although the
\* connection is still in its room's set.
C17_NoEnqueueOnClosed ==
    [][/\ hubPc' # "panic"
       /\ nDispatch' > nDispatch
            => \A c \in Clients : closed[c] => send'[c] = send[c] /\ closed'[c]]_vars

\* C17's case: the step just taken was a Broadcast of a chat_message for a
\* room, enqueued for a registered connection of the room, while another
\* connection of the room's set was unregistered, with its channel closed
C17_Witness ==
    /\ saved # "none"
    /\ hubPc = "select"
    /\ \E c, d \in Clients :
        /\ closed[c] /\ c \notin clients /\ c \in rooms[room[c]]
        /\ d \in clients /\ room[d] = room[c]
        /\ send[d] # <<>>
        /\ send[d][Len(send[d])].n = nDispatch
        /\ send[d][Len(send[d])].raw.room = room[c]

\* the room of the Message in the bytes connection s is sending (src/hub.go)
HubGoSentRoom(s) == rmsg[s].room

\* connection c was evicted in a broadcast case of src/hub.go: its channel
\* was closed and it was deleted from the registry without an Unregister
HubGoEvicted(c) == closed[c] /\ c \notin clients /\ closeCount[c] = 1 /\ unregCount[c] = 0

\* C18: eviction in src/hub.go.  Once a connection was evicted in the
\* broadcast case, a Broadcast for its room completes, with the hub back in
\* its select, and leaves the connection's closed send channel alone; and
\* an Unregister of a connection whose channel is closed closes nothing.
C18_HubGoEviction ==
    [][/\ \A s, c \in Clients :
            Dispatch(s) /\ HubGoEvicted(c) /\ room[c] = HubGoSentRoom(s)
                => /\ hubPc' = "select"
                   /\ send'[c] = send[c]
       /\ \A c \in Clients :
            unregCount'[c] > unregCount[c] /\ closed[c]
                => closeCount' = closeCount /\ hubPc' = hubPc]_vars

(***************************************************************************)
(* Persistence.                                                            *)
(***************************************************************************)
\* C20: persistence per event.  A Broadcast whose envelope is a chat_message
\* with a payload that decodes calls SaveMessage, once, and a Broadcast of a
\* typing_status does not call it, however many connections are registered
\* in the envelope's room, none included, and whether the fan-out ends in the
\* hub's select or at a full send channel.
C20_PersistencePerEvent ==
    [][\A s \in Clients :
        Dispatch(s)
            => LET env == UnmarshalEnvelope(rmsg[s])
               IN  /\ env.Type = "chat_message" /\ ~UnmarshalMessage(env.Payload).err
                        => saved' \in {"ok", "fail"}
                   /\ env.Type = "typing_status" => saved' = "none"
                   /\ nDispatch' = nDispatch + 1]_vars

\* C20's case: SaveMessage was called in the step just taken, a Broadcast
\* that was enqueued for nobody
C20_Witness ==
    /\ saved # "none"
    /\ nDispatch > 0
    /\ hubPc = "select"
    /\ \A c \in Clients : \A i \in 1..Len(send[c]) : send[c][i].n # nDispatch

\* C20's other case: SaveMessage was called in the step just taken, a
\* Broadcast that found a send channel full
C20_WitnessFull == saved # "none" /\ hubPc = "blocked"

====
